---- MODULE Spec2Model ----
(***************************************************************************)
(* Model of the translatron server: the translations and                   *)
(* favorite_translations tables and the handlers that read and write them, *)
(* and of the client's TranslationForm component (variable form).          *)
(*                                                                         *)
(* Strings that are only compared (user ids, language codes) are TLA+      *)
(* strings.  Texts that the code transforms (toLowerCase, template         *)
(* concatenation) are sequences of one-character strings.                  *)
(* A nullable record result (Translation | null) is a sequence of length   *)
(* 0 or 1.  SQL NULL / JS null and JS undefined in a user_id position are  *)
(* the two sentinel strings Null and Undefined, which are not user ids.    *)
(***************************************************************************)
EXTENDS Integers, Sequences, FiniteSets, TLC

VARIABLES translationsTable, favoriteTranslationsTable, nextFavoriteId,
          now, inflight, last, pages, form

vars == <<translationsTable, favoriteTranslationsTable, nextFavoriteId,
          now, inflight, last, pages, form>>

store == <<translationsTable, favoriteTranslationsTable, nextFavoriteId>>

(***************************************************************************)
(* Bounds of the model.                                                    *)
(***************************************************************************)
MaxTranslations == 2
MaxFavorites == 2
MaxClock == 1
MaxLimit == 2
MaxOffset == 2
MaxTranslating == 2

(***************************************************************************)
(* Value domains.                                                          *)
(***************************************************************************)
Null == "<null>"
Undefined == "<undefined>"

\* z.string(): any string, the empty string included
UserIds == {"", "u1"}

\* z.string().nullable().optional()
OptionalUserIds == UserIds \cup {Null, Undefined}

\* pgEnum('language', ['zh', 'en'])
languageEnum == {"zh", "en"}

\* the requests that can be in flight at the same time
Procs == {"p1", "p2"}

Min(a, b) == IF a < b THEN a ELSE b

Max(a, b) == IF a > b THEN a ELSE b

CoalesceFalsy(a, b) == IF a \in {Null, Undefined, ""} THEN b ELSE a

\* a ?? b
Coalesce(a, b) == IF a \in {Null, Undefined} THEN b ELSE a

\* JS truthiness of an optional string: undefined, null and "" are falsy
Truthy(s) == s \notin {Null, Undefined, ""}

(***************************************************************************)
(* Texts.                                                                  *)
(***************************************************************************)
UpperChars == <<"A","B","C","D","E","F","G","H","I","J","K","L","M",
                "N","O","P","Q","R","S","T","U","V","W","X","Y","Z">>

LowerChars == <<"a","b","c","d","e","f","g","h","i","j","k","l","m",
                "n","o","p","q","r","s","t","u","v","w","x","y","z">>

toLowerCaseChar(c) ==
  IF \E i \in DOMAIN UpperChars : UpperChars[i] = c
  THEN LowerChars[CHOOSE i \in DOMAIN UpperChars : UpperChars[i] = c]
  ELSE c

toLowerCase(s) == [i \in DOMAIN s |-> toLowerCaseChar(s[i])]

Hello == <<"h","e","l","l","o">>
Goodbye == <<"g","o","o","d","b","y","e">>
ThankYou == <<"t","h","a","n","k"," ","y","o","u">>
HowAreYou == <<"h","o","w"," ","a","r","e"," ","y","o","u">>
GoodMorning == <<"g","o","o","d"," ","m","o","r","n","i","n","g">>
NiHao == <<"ni","hao">>
ZaiJian == <<"zai","jian">>
XieXie == <<"xie","xie">>
NiHaoMa == <<"ni","hao","ma">>
ZaoShangHao == <<"zao","shang","hao">>

\* the two dictionaries of getMockTranslation, as sets of <<key, value>>
translationsEnZh ==
  { <<Hello, NiHao>>, <<Goodbye, ZaiJian>>, <<ThankYou, XieXie>>,
    <<HowAreYou, NiHaoMa>>, <<GoodMorning, ZaoShangHao>> }

translationsZhEn ==
  { <<NiHao, Hello>>, <<ZaiJian, Goodbye>>, <<XieXie, ThankYou>>,
    <<NiHaoMa, HowAreYou>>, <<ZaoShangHao, GoodMorning>> }

Constructor == <<"c","o","n","s","t","r","u","c","t","o","r">>
ValueOf == <<"v","a","l","u","e","O","f">>
ObjectName == <<"O","b","j","e","c","t">>

\* a JS value that is a built-in function, not a string: the tag, then the
\* function's name
FunctionTag == "<function>"
IsString(value) == value = <<>> \/ Head(value) # FunctionTag

\* properties every object literal inherits from Object.prototype, as
\* <<key, value>> (two of them: the constructor and a method whose name has
\* an upper-case letter)
ObjectPrototype ==
  { <<Constructor, <<FunctionTag>> \o ObjectName>>,
    <<ValueOf, <<FunctionTag>> \o ValueOf>> }

\* translations[key] || fallback: an own property of the literal, else a
\* property inherited from Object.prototype, else (undefined is falsy) the
\* fallback; no dictionary value is the empty string and functions are truthy
Lookup(dict, key, fallback) ==
  IF \E e \in dict : e[1] = key
  THEN (CHOOSE e \in dict : e[1] = key)[2]
  ELSE IF \E e \in ObjectPrototype : e[1] = key
  THEN (CHOOSE e \in ObjectPrototype : e[1] = key)[2]
  ELSE fallback

getMockTranslation(sourceText, sourceLanguage, targetLanguage) ==
  IF sourceLanguage = "en" /\ targetLanguage = "zh"
  THEN Lookup(translationsEnZh, toLowerCase(sourceText),
              sourceText \o <<"de","zhong","wen","fan","yi">>)
  ELSE IF sourceLanguage = "zh" /\ targetLanguage = "en"
  THEN Lookup(translationsZhEn, sourceText,
              <<"English translation of ">> \o sourceText)
  ELSE <<"Mock translation from ", sourceLanguage, " to ", targetLanguage, ": ">>
         \o sourceText

(***************************************************************************)
(* Initial state: both tables empty, no request in flight.                 *)
(***************************************************************************)
NoCall == [op |-> "none", input |-> <<>>, output |-> <<>>]

NoPages == [active |-> FALSE, user_id |-> Undefined, limit |-> 0,
            next |-> 0, acc |-> <<>>, done |-> FALSE]

Idle == [pc |-> "idle", translation_id |-> 0, user_id |-> ""]

\* the state of a freshly mounted TranslationForm: its useState values, the
\* pending debounce timeout (<<>> or <<the values its callback captured>>)
\* and the mockTranslate calls that have started and not yet resolved,
\* oldest first (each resolves 1000 ms after its start)
FormInit ==
  [sourceText |-> <<>>, translatedText |-> <<>>,
   sourceLang |-> "zh", targetLang |-> "en",
   isTranslating |-> FALSE, isRealTime |-> FALSE,
   timeoutId |-> <<>>, translating |-> <<>>]

Init ==
  /\ form = FormInit
  /\ translationsTable = <<>>
  /\ favoriteTranslationsTable = <<>>
  /\ nextFavoriteId = 1
  /\ now = 0
  /\ inflight = [p \in Procs |-> Idle]
  /\ last = NoCall
  /\ pages = NoPages

\* the database clock behind defaultNow()
Tick ==
  /\ now < MaxClock
  /\ now' = now + 1
  /\ UNCHANGED <<store, inflight, last, pages>>
  /\ UNCHANGED form

(***************************************************************************)
(* createTranslation                                                       *)
(***************************************************************************)
createTranslationInputSchemaNoRefine(input) ==
  /\ Len(input.source_text) >= 1
  /\ input.source_language \in languageEnum
  /\ input.target_language \in languageEnum
  /\ input.user_id \in OptionalUserIds

\* createTranslationInputSchema: non-empty text, two different languages
createTranslationInputSchema(input) ==
  /\ Len(input.source_text) >= 1
  /\ input.source_language \in languageEnum
  /\ input.target_language \in languageEnum
  /\ input.user_id \in OptionalUserIds
  /\ input.source_language # input.target_language

\* String(f) of a built-in function f
FunctionToString(value) ==
  <<"f","u","n","c","t","i","o","n"," ">> \o Tail(value)
    \o <<"(",")"," ","{"," ","[","n","a","t","i","v","e"," ",
         "c","o","d","e","]"," ","}">>

\* what the insert does with the value bound to the text column
\* translated_text: a string is stored as it is; for a value that is not a
\* string the database driver either binds its string form or rejects it,
\* and then the insert throws.  <<text>> is a stored text, <<>> a throw.
InsertTranslatedText(value) ==
  IF IsString(value) THEN {<<value>>}
  ELSE {<<FunctionToString(value)>>, <<>>}

NextTranslationIdReused == Max(1, Len(translationsTable))

\* id: serial('id').primaryKey(): the sequence's next value; no row is ever
\* deleted and no id is ever given by a caller
NextTranslationId == Len(translationsTable) + 1

\* the procedure's input does not parse: the router answers with an error and
\* never calls the handler
rejectCreateTranslation(input) ==
  /\ ~createTranslationInputSchema(input)
  /\ last' = [op |-> "createTranslation", input |-> input,
              output |-> [error |-> "BAD_REQUEST"]]
  /\ pages' = NoPages
  /\ UNCHANGED <<store, now, inflight>>
  /\ UNCHANGED form

createTranslation(input) ==
  /\ createTranslationInputSchema(input)
  /\ Len(translationsTable) < MaxTranslations
  /\ \E bound \in InsertTranslatedText(
                     getMockTranslation(input.source_text,
                                        input.source_language,
                                        input.target_language)) :
       IF bound = <<>>
       THEN /\ last' = [op |-> "createTranslation", input |-> input,
                        output |-> [error |-> "insert failed"]]
            /\ UNCHANGED translationsTable
       ELSE LET row == [id |-> NextTranslationId,
                        source_text |-> input.source_text,
                        translated_text |-> bound[1],
                        source_language |-> input.source_language,
                        target_language |-> input.target_language,
                        user_id |-> Coalesce(input.user_id, Null),
                        created_at |-> now]
            IN /\ translationsTable' = Append(translationsTable, row)
               /\ last' = [op |-> "createTranslation", input |-> input,
                           output |-> row]
  /\ pages' = NoPages
  /\ UNCHANGED <<favoriteTranslationsTable, nextFavoriteId, now, inflight>>
  /\ UNCHANGED form

(***************************************************************************)
(* getTranslationById                                                      *)
(***************************************************************************)
\* the access check of getTranslationById on the fetched row
MayAccess(translation, userId) ==
  IF Truthy(userId)
  THEN ~(translation.user_id # Null /\ translation.user_id # userId)
  ELSE ~(translation.user_id # Null)

getTranslationByIdResult(id, userId) ==
  LET result == SelectSeq(translationsTable, LAMBDA t : t.id = id)
  IN IF Len(result) = 0 THEN <<>>
     ELSE IF MayAccess(result[1], userId) THEN <<result[1]>>
     ELSE <<>>

getTranslationById(id, userId) ==
  /\ last' = [op |-> "getTranslationById",
              input |-> [id |-> id, userId |-> userId],
              output |-> getTranslationByIdResult(id, userId)]
  /\ pages' = NoPages
  /\ UNCHANGED <<store, now, inflight>>
  /\ UNCHANGED form

(***************************************************************************)
(* getTranslationHistory                                                   *)
(***************************************************************************)
Range(s) == {s[i] : i \in DOMAIN s}

\* the ON condition of the left join
JoinCondition(input, t, f) ==
  /\ f.translation_id = t.id
  /\ IF Truthy(input.user_id) THEN f.user_id = input.user_id
                              ELSE f.user_id = Null

needsFilterLoose(input) == input.user_id \in {Null, Undefined}

needsFilter(input) == input.user_id # Undefined /\ input.user_id = Null

WhereClauseOwnerOnly(input, t) ==
  IF needsFilter(input) THEN t.user_id = Null
  ELSE IF input.user_id \in UserIds THEN t.user_id = input.user_id
  ELSE TRUE

\* .where(isNull(translationsTable.user_id)) when needsFilter, else no WHERE
WhereClause(input, t) ==
  IF needsFilter(input) THEN t.user_id = Null ELSE TRUE

\* rows of translations LEFT JOIN favorite_translations, after the WHERE
JoinedRows(input) ==
  LET kept == {t \in Range(translationsTable) : WhereClause(input, t)}
      matches(t) == {f \in Range(favoriteTranslationsTable) :
                       JoinCondition(input, t, f)}
  IN UNION { IF matches(t) = {}
             THEN {[translation |-> t, favorite_id |-> <<>>]}
             ELSE {[translation |-> t, favorite_id |-> <<f.id>>] :
                     f \in matches(t)}
           : t \in kept }

FirstByCreatedAtAsc(rows) ==
  {r \in rows : \A o \in rows :
      r.translation.created_at <= o.translation.created_at}

\* desc(translationsTable.created_at): which rows may come first
FirstByCreatedAtDesc(rows) ==
  {r \in rows : \A o \in rows :
      r.translation.created_at >= o.translation.created_at}

\* every order the database may return for ORDER BY created_at DESC: the
\* query names no other sort key, so rows with equal created_at come in any
\* relative order
RECURSIVE OrderByCreatedAtDesc(_)
OrderByCreatedAtDesc(rows) ==
  IF rows = {} THEN {<<>>}
  ELSE UNION { {<<r>> \o rest : rest \in OrderByCreatedAtDesc(rows \ {r})}
               : r \in FirstByCreatedAtDesc(rows) }

\* .limit(limit).offset(offset)
LimitOffset(s, limit, offset) ==
  SubSeq(s, offset + 1, Min(Len(s), offset + limit))

\* results.map(...): the translation's columns plus is_favorite
ToTranslationWithFavorite(r) ==
  [id |-> r.translation.id,
   source_text |-> r.translation.source_text,
   translated_text |-> r.translation.translated_text,
   source_language |-> r.translation.source_language,
   target_language |-> r.translation.target_language,
   user_id |-> r.translation.user_id,
   created_at |-> r.translation.created_at,
   is_favorite |-> (r.favorite_id # <<>>)]

\* every list one call of getTranslationHistory(input) may return
getTranslationHistoryResults(input) ==
  { LET page == LimitOffset(ordered, input.limit, input.offset)
    IN [i \in DOMAIN page |-> ToTranslationWithFavorite(page[i])]
    : ordered \in OrderByCreatedAtDesc(JoinedRows(input)) }

\* getTranslationHistoryInputSchema
getTranslationHistoryInputSchema(input) ==
  /\ input.user_id \in OptionalUserIds
  /\ input.limit \in 1..MaxLimit
  /\ input.offset \in 0..MaxOffset

\* a caller that reads page after page with nothing else in between: offset 0
\* starts over, the offset that continues the pages read so far appends, any
\* other call (and any other handler) drops them
PagesAfter(input, result) ==
  IF input.offset = 0
  THEN [active |-> TRUE, user_id |-> input.user_id, limit |-> input.limit,
        next |-> input.limit, acc |-> result, done |-> (result = <<>>)]
  ELSE IF /\ pages.active /\ ~pages.done
          /\ pages.user_id = input.user_id /\ pages.limit = input.limit
          /\ pages.next = input.offset
  THEN [pages EXCEPT !.next = @ + input.limit, !.acc = @ \o result,
                     !.done = (result = <<>>)]
  ELSE NoPages

getTranslationHistory(input) ==
  /\ getTranslationHistoryInputSchema(input)
  /\ \E result \in getTranslationHistoryResults(input) :
       /\ last' = [op |-> "getTranslationHistory", input |-> input,
                   output |-> result]
       /\ pages' = PagesAfter(input, result)
  /\ UNCHANGED <<store, now, inflight>>
  /\ UNCHANGED form

(***************************************************************************)
(* createFavorite                                                          *)
(***************************************************************************)
\* 1. select from translations where id = translation_id
SelectTranslationAny(translation_id) == translationsTable

SelectTranslationUpTo(translation_id) ==
  SelectSeq(translationsTable, LAMBDA t : t.id <= translation_id)

\* 1. select from translations where id = ..
SelectTranslation(translation_id) ==
  SelectSeq(translationsTable, LAMBDA t : t.id = translation_id)

SelectExistingFavoriteAnyUser(translation_id, user_id) ==
  SelectSeq(favoriteTranslationsTable,
            LAMBDA f : f.translation_id = translation_id)

SelectExistingFavoriteById(translation_id, user_id) ==
  SelectSeq(favoriteTranslationsTable,
            LAMBDA f : f.id = translation_id /\ f.user_id = user_id)

\* 2. select from favorite_translations where translation_id = .. and user_id = ..
SelectExistingFavorite(translation_id, user_id) ==
  SelectSeq(favoriteTranslationsTable,
            LAMBDA f : f.translation_id = translation_id /\ f.user_id = user_id)

\* 3. insert into favorite_translations ... returning
NewFavorite(translation_id, user_id) ==
  [id |-> nextFavoriteId, translation_id |-> translation_id,
   user_id |-> user_id, created_at |-> now]

InsertFavoriteUnique(input) ==
  IF Len(SelectExistingFavorite(input.translation_id, input.user_id)) > 0
  THEN /\ last' = [op |-> "createFavorite", input |-> input,
                   output |-> [error |-> "duplicate key", favorite |-> <<>>]]
       /\ pages' = NoPages
       /\ UNCHANGED <<store, now>>
  ELSE /\ favoriteTranslationsTable' =
            Append(favoriteTranslationsTable,
                   NewFavorite(input.translation_id, input.user_id))
       /\ nextFavoriteId' = nextFavoriteId + 1
       /\ last' = [op |-> "createFavorite", input |-> input,
                   output |-> [error |-> "",
                               favorite |-> <<NewFavorite(input.translation_id,
                                                          input.user_id)>>]]
       /\ pages' = NoPages
       /\ UNCHANGED <<translationsTable, now>>

\* favorite_translations has no unique constraint on (translation_id,
\* user_id): the insert stores the row whatever the table holds
InsertFavorite(input) ==
  /\ favoriteTranslationsTable' =
       Append(favoriteTranslationsTable,
              NewFavorite(input.translation_id, input.user_id))
  /\ nextFavoriteId' = nextFavoriteId + 1
  /\ last' = [op |-> "createFavorite", input |-> input,
              output |-> [error |-> "",
                          favorite |-> <<NewFavorite(input.translation_id,
                                                     input.user_id)>>]]
  /\ pages' = NoPages
  /\ UNCHANGED <<translationsTable, now>>

ThrowFromCreateFavoriteAfterInsert(input, message) ==
  /\ favoriteTranslationsTable' =
       Append(favoriteTranslationsTable,
              NewFavorite(input.translation_id, input.user_id))
  /\ last' = [op |-> "createFavorite", input |-> input,
              output |-> [error |-> message, favorite |-> <<>>]]
  /\ pages' = NoPages
  /\ UNCHANGED <<translationsTable, nextFavoriteId, now>>

\* throw new Error(message), before the insert; the catch block logs and
\* rethrows
ThrowFromCreateFavorite(input, message) ==
  /\ last' = [op |-> "createFavorite", input |-> input,
              output |-> [error |-> message, favorite |-> <<>>]]
  /\ pages' = NoPages
  /\ UNCHANGED <<store, now>>

createFavoriteInputSchema(input) ==
  /\ input.translation_id \in 1..(MaxTranslations + 1)
  /\ input.user_id \in UserIds

InputOf(p) == [translation_id |-> inflight[p].translation_id,
               user_id |-> inflight[p].user_id]

\* the calls that have found their translation and not yet answered
InFlight == {p \in Procs : inflight[p].pc # "idle"}

\* the request arrives and runs up to the answer of its first query
createFavoriteCheckTranslation(p, input) ==
  /\ createFavoriteInputSchema(input)
  /\ inflight[p].pc = "idle"
  /\ IF Len(SelectTranslation(input.translation_id)) = 0
     THEN /\ ThrowFromCreateFavorite(input, "Translation not found")
          /\ UNCHANGED inflight
     ELSE /\ nextFavoriteId + Cardinality(InFlight) <= MaxFavorites
          /\ inflight' = [inflight EXCEPT ![p] =
                 [pc |-> "checkExisting",
                  translation_id |-> input.translation_id,
                  user_id |-> input.user_id]]
          /\ UNCHANGED <<store, now, last, pages>>
  /\ UNCHANGED form

\* it resumes and runs up to the answer of its second query
createFavoriteCheckExisting(p) ==
  /\ inflight[p].pc = "checkExisting"
  /\ IF Len(SelectExistingFavorite(inflight[p].translation_id,
                                   inflight[p].user_id)) > 0
     THEN /\ ThrowFromCreateFavorite(InputOf(p),
                 "Translation is already favorited by this user")
          /\ inflight' = [inflight EXCEPT ![p] = Idle]
     ELSE /\ inflight' = [inflight EXCEPT ![p].pc = "insert"]
          /\ UNCHANGED <<store, now, last, pages>>
  /\ UNCHANGED form

\* it resumes, inserts and returns the new row
createFavoriteInsert(p) ==
  /\ inflight[p].pc = "insert"
  /\ InsertFavorite(InputOf(p))
  /\ inflight' = [inflight EXCEPT ![p] = Idle]
  /\ UNCHANGED form

\* the whole handler, when no other request runs between its queries
createFavorite(input) ==
  /\ createFavoriteInputSchema(input)
  /\ IF Len(SelectTranslation(input.translation_id)) = 0
     THEN ThrowFromCreateFavorite(input, "Translation not found")
     ELSE IF Len(SelectExistingFavorite(input.translation_id,
                                        input.user_id)) > 0
     THEN ThrowFromCreateFavorite(input,
              "Translation is already favorited by this user")
     ELSE nextFavoriteId <= MaxFavorites /\ InsertFavorite(input)
  /\ UNCHANGED inflight
  /\ UNCHANGED form

(***************************************************************************)
(* deleteFavorite                                                          *)
(***************************************************************************)
deleteFavoriteInputSchema(input) ==
  /\ input.translation_id \in 1..(MaxTranslations + 1)
  /\ input.user_id \in UserIds

DeleteWhereAnyUser(input, f) == f.translation_id = input.translation_id

DeleteWhereAnyTranslation(input, f) == f.user_id = input.user_id

DeleteWhereOldestOnly(input, f) ==
  /\ f.translation_id = input.translation_id
  /\ f.user_id = input.user_id
  /\ \A g \in {favoriteTranslationsTable[i] :
                   i \in DOMAIN favoriteTranslationsTable} :
        (g.translation_id = f.translation_id /\ g.user_id = f.user_id)
        => g.id >= f.id

\* .where(and(eq(translation_id, ..), eq(user_id, ..))) of the delete
DeleteWhere(input, f) ==
  /\ f.translation_id = input.translation_id
  /\ f.user_id = input.user_id

deleteFavorite(input) ==
  /\ deleteFavoriteInputSchema(input)
  /\ LET matches(f) == DeleteWhere(input, f)
         rowCount == Len(SelectSeq(favoriteTranslationsTable, matches))
     IN /\ favoriteTranslationsTable' =
             SelectSeq(favoriteTranslationsTable, LAMBDA f : ~matches(f))
        /\ last' = [op |-> "deleteFavorite", input |-> input,
                    output |-> [success |-> (rowCount > 0)],
                    rowCount |-> rowCount]
  /\ pages' = NoPages
  /\ UNCHANGED <<translationsTable, nextFavoriteId, now, inflight>>
  /\ UNCHANGED form

(***************************************************************************)
(* getFavorites                                                            *)
(***************************************************************************)
FavoritesWhereAnyUser(input, f) == TRUE

\* .where(eq(favoriteTranslationsTable.user_id, input.user_id))
FavoritesWhere(input, f) == f.user_id = input.user_id

JoinedFavoritesOfOwner(input) ==
  {r \in [favorite_translations : Range(favoriteTranslationsTable),
          translations : Range(translationsTable)] :
     /\ r.favorite_translations.translation_id = r.translations.id
     /\ r.favorite_translations.user_id = input.user_id
     /\ r.translations.user_id \in {Null, input.user_id}}

\* rows of favorite_translations INNER JOIN translations, after the WHERE
JoinedFavorites(input) ==
  {r \in [favorite_translations : Range(favoriteTranslationsTable),
          translations : Range(translationsTable)] :
     /\ r.favorite_translations.translation_id = r.translations.id
     /\ FavoritesWhere(input, r.favorite_translations)}

FirstByTranslationCreatedAtDesc(rows) ==
  {r \in rows : \A o \in rows :
      r.translations.created_at >= o.translations.created_at}

\* desc(favoriteTranslationsTable.created_at): which rows may come first
FirstByFavoriteCreatedAtDesc(rows) ==
  {r \in rows : \A o \in rows :
      r.favorite_translations.created_at >= o.favorite_translations.created_at}

\* every order the database may return for ORDER BY the favorite's
\* created_at DESC
RECURSIVE OrderByFavoriteCreatedAtDesc(_)
OrderByFavoriteCreatedAtDesc(rows) ==
  IF rows = {} THEN {<<>>}
  ELSE UNION { {<<r>> \o rest :
                  rest \in OrderByFavoriteCreatedAtDesc(rows \ {r})}
               : r \in FirstByFavoriteCreatedAtDesc(rows) }

\* results.map(...): the translation's columns, is_favorite always true
ToFavoriteTranslation(r) ==
  [id |-> r.translations.id,
   source_text |-> r.translations.source_text,
   translated_text |-> r.translations.translated_text,
   source_language |-> r.translations.source_language,
   target_language |-> r.translations.target_language,
   user_id |-> r.translations.user_id,
   created_at |-> r.translations.created_at,
   is_favorite |-> TRUE]

\* every list one call of getFavorites(input) may return
getFavoritesResults(input) ==
  { LET page == LimitOffset(ordered, input.limit, input.offset)
    IN [i \in DOMAIN page |-> ToFavoriteTranslation(page[i])]
    : ordered \in OrderByFavoriteCreatedAtDesc(JoinedFavorites(input)) }

getFavoritesInputSchema(input) ==
  /\ input.user_id \in UserIds
  /\ input.limit \in 1..MaxLimit
  /\ input.offset \in 0..MaxOffset

getFavoritesAndUnmark(input) ==
  /\ getFavoritesInputSchema(input)
  /\ \E result \in getFavoritesResults(input) :
       last' = [op |-> "getFavorites", input |-> input, output |-> result]
  /\ favoriteTranslationsTable' =
       SelectSeq(favoriteTranslationsTable,
                 LAMBDA f : ~FavoritesWhere(input, f))
  /\ pages' = NoPages
  /\ UNCHANGED <<translationsTable, nextFavoriteId, now, inflight>>
  /\ UNCHANGED form

getFavorites(input) ==
  /\ getFavoritesInputSchema(input)
  /\ \E result \in getFavoritesResults(input) :
       last' = [op |-> "getFavorites", input |-> input, output |-> result]
  /\ pages' = NoPages
  /\ UNCHANGED <<store, now, inflight>>
  /\ UNCHANGED form

(***************************************************************************)
(* The client's TranslationForm with its real-time translation effect.     *)
(***************************************************************************)
server == <<store, now, inflight, last, pages>>

Blank == " "

\* String.prototype.trim on a text of the model
RECURSIVE TrimStart(_)
TrimStart(s) ==
  IF s # <<>> /\ Head(s) = Blank THEN TrimStart(Tail(s)) ELSE s

RECURSIVE TrimEnd(_)
TrimEnd(s) ==
  IF s # <<>> /\ s[Len(s)] = Blank
  THEN TrimEnd(SubSeq(s, 1, Len(s) - 1)) ELSE s

trim(s) == TrimEnd(TrimStart(s))

\* the value mockTranslate resolves with
mockTranslate(text, sourceLang, targetLang) ==
  IF sourceLang = "zh" /\ targetLang = "en"
  THEN <<"[EN] ">> \o text
  ELSE <<"[zhongwen] ">> \o text

\* the dependency list of the real-time effect
EffectDeps(f) == <<f.sourceText, f.sourceLang, f.targetLang, f.isRealTime>>

\* the effect body on the rendered state f, the previous run's cleanup
\* (clearTimeout of its timeout) done
RealTimeEffect(f) ==
  IF ~f.isRealTime \/ trim(f.sourceText) = <<>>
  THEN [f EXCEPT !.translatedText = <<>>, !.timeoutId = <<>>]
  ELSE [f EXCEPT !.timeoutId =
          <<[sourceText |-> f.sourceText, sourceLang |-> f.sourceLang,
             targetLang |-> f.targetLang]>>]

\* the component renders with state f; the effect runs again when one of
\* its dependencies has changed
Render(f) ==
  IF EffectDeps(f) # EffectDeps(form) THEN RealTimeEffect(f) ELSE f

\* onChange of the source textarea
setSourceText(text) ==
  /\ form' = Render([form EXCEPT !.sourceText = text])
  /\ UNCHANGED server

\* the real-time button: setIsRealTime(!isRealTime)
setIsRealTime ==
  /\ form' = Render([form EXCEPT !.isRealTime = ~form.isRealTime])
  /\ UNCHANGED server

\* the clear button, disabled while both texts are empty
handleClear ==
  /\ ~(form.sourceText = <<>> /\ form.translatedText = <<>>)
  /\ form' = Render([form EXCEPT !.sourceText = <<>>,
                                 !.translatedText = <<>>])
  /\ UNCHANGED server

\* 500 ms passed with the timeout not cleared: its callback starts
\* mockTranslate with the values it captured
timeoutFires ==
  /\ form.timeoutId # <<>>
  /\ Len(form.translating) < MaxTranslating
  /\ form' = [form EXCEPT !.timeoutId = <<>>,
                          !.isTranslating = TRUE,
                          !.translating = Append(@, form.timeoutId[1])]
  /\ UNCHANGED server

\* the oldest mockTranslate call resolves: the callback goes on after its
\* await with setTranslatedText(result), then setIsTranslating(false)
mockTranslateResolves ==
  /\ form.translating # <<>>
  /\ LET call == Head(form.translating)
     IN form' = [form EXCEPT
                   !.translating = Tail(@),
                   !.translatedText = mockTranslate(call.sourceText,
                                                    call.sourceLang,
                                                    call.targetLang),
                   !.isTranslating = FALSE]
  /\ UNCHANGED server

(***************************************************************************)
(* The requests the model issues.                                          *)
(***************************************************************************)
CreateTranslationInputs ==
  [source_text : {Hello}, source_language : {"en"},
   target_language : {"zh"}, user_id : OptionalUserIds]

GetTranslationHistoryInputs ==
  [user_id : OptionalUserIds, limit : 1..MaxLimit, offset : 0..MaxOffset]

FavoriteInputs ==
  [translation_id : 1..(MaxTranslations + 1), user_id : UserIds]

\* requests interleave at the awaits of createFavorite
Next ==
  \/ Tick
  \/ \E input \in CreateTranslationInputs : createTranslation(input)
  \/ \E id \in 1..(MaxTranslations + 1), userId \in UserIds \cup {Undefined} :
       getTranslationById(id, userId)
  \/ \E input \in GetTranslationHistoryInputs : getTranslationHistory(input)
  \/ \E p \in Procs, input \in FavoriteInputs :
       createFavoriteCheckTranslation(p, input)
  \/ \E p \in Procs : createFavoriteCheckExisting(p)
  \/ \E p \in Procs : createFavoriteInsert(p)
  \/ \E input \in FavoriteInputs : deleteFavorite(input)

Spec == Init /\ [][Next]_vars

\* every handler runs to completion before the next request starts
NextSeq ==
  \/ Tick
  \/ \E input \in CreateTranslationInputs : createTranslation(input)
  \/ \E id \in 1..(MaxTranslations + 1), userId \in UserIds \cup {Undefined} :
       getTranslationById(id, userId)
  \/ \E input \in GetTranslationHistoryInputs : getTranslationHistory(input)
  \/ \E input \in FavoriteInputs : createFavorite(input)
  \/ \E input \in FavoriteInputs : deleteFavorite(input)

SpecSeq == Init /\ [][NextSeq]_vars

GetFavoritesInputs ==
  [user_id : UserIds, limit : 1..MaxLimit, offset : 0..MaxOffset]

\* the favorites of each user are written, by interleaved requests, and read
NextFav ==
  \/ Tick
  \/ \E input \in CreateTranslationInputs : createTranslation(input)
  \/ \E p \in Procs, input \in FavoriteInputs :
       createFavoriteCheckTranslation(p, input)
  \/ \E p \in Procs : createFavoriteCheckExisting(p)
  \/ \E p \in Procs : createFavoriteInsert(p)
  \/ \E input \in FavoriteInputs : deleteFavorite(input)
  \/ \E input \in GetFavoritesInputs : getFavorites(input)

SpecFav == Init /\ [][NextFav]_vars

HelloCapitalised == <<"H","e","l","l","o">>
Cat == <<"c","a","t">>
Mao == <<"mao">>

\* texts a translation is requested for: dictionary keys of both directions,
\* a key in another case, the empty text, words no dictionary has, and names
\* of Object.prototype
SourceTexts ==
  {Hello, HelloCapitalised, NiHao, Cat, Mao, Constructor, ValueOf, <<>>}

TextInputs ==
  [source_text : SourceTexts, source_language : languageEnum,
   target_language : languageEnum, user_id : {Undefined, "u1"}]

\* translations of many texts are created
NextText ==
  \/ Tick
  \/ \E input \in TextInputs : createTranslation(input)

SpecText == Init /\ [][NextText]_vars

SpacedHi == <<" ","H","i"," ">>

\* what a client may send to the createTranslation procedure: a text with
\* a capital and outer blanks, the empty text, equal and different languages,
\* every kind of user_id
ApiCreateTranslationInputs ==
  [source_text : {SpacedHi, <<>>},
   source_language : languageEnum, target_language : languageEnum,
   user_id : OptionalUserIds]

\* the write procedures of the router, each request run to completion
NextApi ==
  \/ Tick
  \/ \E input \in ApiCreateTranslationInputs : createTranslation(input)
  \/ \E input \in ApiCreateTranslationInputs : rejectCreateTranslation(input)
  \/ \E input \in FavoriteInputs : createFavorite(input)
  \/ \E input \in FavoriteInputs : deleteFavorite(input)

SpecApi == Init /\ [][NextApi]_vars

\* every procedure of the router, each request run to completion
NextRead ==
  \/ Tick
  \/ \E input \in CreateTranslationInputs : createTranslation(input)
  \/ \E id \in 1..(MaxTranslations + 1), userId \in UserIds \cup {Undefined} :
       getTranslationById(id, userId)
  \/ \E input \in GetTranslationHistoryInputs : getTranslationHistory(input)
  \/ \E input \in GetFavoritesInputs : getFavorites(input)
  \/ \E input \in FavoriteInputs : createFavorite(input)
  \/ \E input \in FavoriteInputs : deleteFavorite(input)

SpecRead == Init /\ [][NextRead]_vars

\* favorites are written by requests that interleave at the awaits of
\* createFavorite; a createFavorite that arrives while no other is in flight
\* may also run to completion undisturbed
NextRace ==
  \/ Tick
  \/ \E input \in CreateTranslationInputs : createTranslation(input)
  \/ \E p \in Procs, input \in FavoriteInputs :
       createFavoriteCheckTranslation(p, input)
  \/ \E p \in Procs : createFavoriteCheckExisting(p)
  \/ \E p \in Procs : createFavoriteInsert(p)
  \/ \E input \in FavoriteInputs : InFlight = {} /\ createFavorite(input)
  \/ \E input \in FavoriteInputs : deleteFavorite(input)

SpecRace == Init /\ [][NextRace]_vars

\* what a user may type into the source textarea
SourceTextsTyped == {<<>>, <<"a">>, <<"b">>, <<Blank>>}

\* a user works with the form while timeouts fire and translations resolve
NextForm ==
  \/ \E text \in SourceTextsTyped : setSourceText(text)
  \/ setIsRealTime
  \/ handleClear
  \/ timeoutFires
  \/ mockTranslateResolves

SpecForm == Init /\ [][NextForm]_vars

(***************************************************************************)
(* Properties.                                                             *)
(***************************************************************************)
IsHistoryCall == last.op = "getTranslationHistory"

\* a returned TranslationWithFavorite without its is_favorite flag
AsTranslation(r) ==
  [id |-> r.id, source_text |-> r.source_text,
   translated_text |-> r.translated_text,
   source_language |-> r.source_language,
   target_language |-> r.target_language,
   user_id |-> r.user_id, created_at |-> r.created_at]

MarkersOf(translation_id, user_id) ==
  {f \in Range(favoriteTranslationsTable) :
     f.translation_id = translation_id /\ f.user_id = user_id}

\* C1: when every handler runs to completion before the next one starts, the
\* favorites table never holds two rows with the same (translation_id, user_id).
C1_AtMostOneMarkerPerPair ==
  \A i, j \in DOMAIN favoriteTranslationsTable :
     ( /\ favoriteTranslationsTable[i].translation_id
            = favoriteTranslationsTable[j].translation_id
       /\ favoriteTranslationsTable[i].user_id
            = favoriteTranslationsTable[j].user_id ) => i = j

\* a createFavorite for a pair that is already stored was answered with the
\* duplicate error, the stored marker of the pair being the second one the
\* table was given
C1_Witness ==
  /\ last.op = "createFavorite"
  /\ last.output.error = "Translation is already favorited by this user"
  /\ Cardinality(MarkersOf(last.input.translation_id, last.input.user_id)) = 1
  /\ \E f \in MarkersOf(last.input.translation_id, last.input.user_id) :
        f.id > 1

\* C2: getTranslationById(id, u) returns the stored translation iff a
\* translation with that id exists and its user_id is null or equals u; in
\* every other case it returns null.
C2_ByIdVisibleIffPublicOrOwned ==
  last.op = "getTranslationById" =>
    LET visible == {t \in Range(translationsTable) :
                      /\ t.id = last.input.id
                      /\ (t.user_id = Null \/ t.user_id = last.input.userId)}
    IN /\ (last.output # <<>>) <=> (visible # {})
       /\ last.output # <<>> => last.output[1] \in visible

\* C3 as stated: with user_id a concrete string u, every returned record is
\* owned by u.
C3_HistoryOnlyOwnTranslations ==
  (IsHistoryCall /\ last.input.user_id \in UserIds) =>
    \A i \in DOMAIN last.output : last.output[i].user_id = last.input.user_id

\* C3 as amended: with user_id a concrete string no owner filter applies:
\* every returned record is a stored translation whoever owns it, and a call
\* at offset 0 whose limit is at least the number of stored translations plus
\* the number of stored markers returns every stored translation.
C3_HistoryForUserIgnoresOwner ==
  (IsHistoryCall /\ last.input.user_id \in UserIds) =>
    /\ \A i \in DOMAIN last.output :
          AsTranslation(last.output[i]) \in Range(translationsTable)
    /\ ( /\ last.input.offset = 0
         /\ last.input.limit >= Len(translationsTable)
                                  + Len(favoriteTranslationsTable) )
       => {AsTranslation(last.output[i]) : i \in DOMAIN last.output}
            = Range(translationsTable)

\* user "u1" asked for the history and got a record owned by the user ""
\* and an anonymous one
C3_Witness ==
  /\ IsHistoryCall
  /\ last.input.user_id = "u1"
  /\ \E i \in DOMAIN last.output : last.output[i].user_id = ""
  /\ \E i \in DOMAIN last.output : last.output[i].user_id = Null

\* C4: at offset 0 with a limit covering the table, user_id = null returns
\* exactly the translations whose user_id is null and user_id = undefined
\* returns exactly all stored translations, each once.
C4_HistoryNullAndUndefined ==
  ( /\ IsHistoryCall
    /\ last.input.offset = 0
    /\ last.input.limit >= Len(translationsTable) ) =>
    LET returned == {AsTranslation(last.output[i]) : i \in DOMAIN last.output}
        anonymous == {t \in Range(translationsTable) : t.user_id = Null}
    IN /\ last.input.user_id = Null =>
            /\ returned = anonymous
            /\ Len(last.output) = Cardinality(anonymous)
       /\ last.input.user_id = Undefined =>
            /\ returned = Range(translationsTable)
            /\ Len(last.output) = Len(translationsTable)

\* the table holds an anonymous and an owned translation, and the call with
\* user_id = null returned the anonymous one alone
C4_Witness ==
  /\ IsHistoryCall
  /\ last.input.user_id = Null
  /\ last.input.offset = 0
  /\ last.input.limit >= Len(translationsTable)
  /\ \E t \in Range(translationsTable) : t.user_id \in UserIds
  /\ Len(last.output) = 1
  /\ last.output[1].user_id = Null

\* C5: a returned record has is_favorite = true iff the call's user_id is a
\* concrete string u and a marker (record.id, u) is stored.
C5_IsFavoriteIffMarkerOfUser ==
  IsHistoryCall =>
    \A i \in DOMAIN last.output :
       last.output[i].is_favorite
         <=> ( /\ last.input.user_id \in UserIds
               /\ MarkersOf(last.output[i].id, last.input.user_id) # {} )

\* C6: no two records of one getTranslationHistory result share an id.
C6_HistoryNoDuplicateIds ==
  IsHistoryCall =>
    \A i, j \in DOMAIN last.output :
       last.output[i].id = last.output[j].id => i = j

\* C7: every getTranslationHistory result is sorted non-increasing by
\* created_at.
C7_HistorySortedByCreatedAtDesc ==
  IsHistoryCall =>
    \A i, j \in DOMAIN last.output :
       i < j => last.output[i].created_at >= last.output[j].created_at

\* a result of two records in which the later insertion, with the larger
\* created_at, comes first
C7_Witness ==
  /\ IsHistoryCall
  /\ Len(last.output) >= 2
  /\ last.output[1].created_at > last.output[2].created_at
  /\ last.output[1].id > last.output[2].id

\* C8: two consecutive calls with the same input against the same tables
\* return the same list, so the order among equal created_at is fixed.
C8_HistoryOrderRepeatable ==
  [][ ( /\ IsHistoryCall
        /\ last'.op = "getTranslationHistory"
        /\ last'.input = last.input
        /\ store' = store )
      => last'.output = last.output ]_vars

\* C9: the pages read at offsets 0, L, 2L, ... up to the first empty page,
\* concatenated, are a list that one call with a covering limit returns.
C9_PagesReconstructHistory ==
  (pages.active /\ pages.done) =>
    pages.acc \in getTranslationHistoryResults(
                    [user_id |-> pages.user_id,
                     limit |-> Len(translationsTable)
                                 + Len(favoriteTranslationsTable) + 1,
                     offset |-> 0])

\* C10: a call returns exactly min(L, max(0, N - O)) records, N being the
\* number of stored translations that pass the filter on user_id.
C10_HistoryCount ==
  IsHistoryCall =>
    LET N == Cardinality({t \in Range(translationsTable) :
                            WhereClause(last.input, t)})
    IN Len(last.output)
         = Min(last.input.limit, Max(0, N - last.input.offset))

StoredTranslationIds == {t.id : t \in Range(translationsTable)}

AlreadyFavorited == "Translation is already favorited by this user"
TranslationNotFound == "Translation not found"

\* C11: createFavorite called twice in sequence with the same
\* (translation_id, user_id) for an existing translation: the first call, which
\* finds no marker of the pair, succeeds; the call that follows a successful
\* one with the same input fails with the "already favorited" error and stores
\* nothing; afterwards exactly one marker of the pair is stored.
C11_SecondCreateFavoriteFails ==
  [][\A input \in FavoriteInputs :
       createFavorite(input) =>
         /\ ( /\ input.translation_id \in StoredTranslationIds
              /\ MarkersOf(input.translation_id, input.user_id) = {} )
            => /\ last'.output.error = ""
               /\ Cardinality(MarkersOf(input.translation_id,
                                         input.user_id)') = 1
         /\ ( /\ last.op = "createFavorite"
              /\ last.input = input
              /\ last.output.error = "" )
            => /\ last'.output.error = AlreadyFavorited
               /\ last'.output.favorite = <<>>
               /\ favoriteTranslationsTable' = favoriteTranslationsTable
               /\ Cardinality(MarkersOf(input.translation_id,
                                         input.user_id)') = 1
    ]_vars

\* the second of two calls was refused: the marker of the pair is the one the
\* table was given last, nothing was stored after it, and the refused call ran
\* at the time the marker was stored
C11_Witness ==
  /\ last.op = "createFavorite"
  /\ last.output.error = AlreadyFavorited
  /\ \E f \in MarkersOf(last.input.translation_id, last.input.user_id) :
        /\ f.id = nextFavoriteId - 1
        /\ f.created_at = now
        /\ MarkersOf(last.input.translation_id, last.input.user_id) = {f}
  /\ Len(favoriteTranslationsTable) = nextFavoriteId - 1

\* C12: createFavorite with a translation_id that is not in the translation
\* store fails with the "translation not found" error, which differs from the
\* "already favorited" error, returns no marker and stores none.
C12_CreateFavoriteUnknownTranslation ==
  [][\A input \in FavoriteInputs :
       ( /\ createFavorite(input)
         /\ input.translation_id \notin StoredTranslationIds )
       => /\ last'.output.error = TranslationNotFound
          /\ last'.output.error # AlreadyFavorited
          /\ last'.output.favorite = <<>>
          /\ favoriteTranslationsTable' = favoriteTranslationsTable
    ]_vars

\* the request named an id no translation has while translations and a marker
\* of the requesting user are stored
C12_Witness ==
  /\ last.op = "createFavorite"
  /\ last.output.error = TranslationNotFound
  /\ last.input.translation_id \notin StoredTranslationIds
  /\ translationsTable # <<>>
  /\ \E f \in Range(favoriteTranslationsTable) : f.user_id = last.input.user_id

\* C13: createFavorite(t, u) succeeds whenever t is stored and no marker of
\* exactly (t, u) is stored, whatever markers other users hold on t, whatever
\* markers u holds on other translations and whoever owns t; the marker it
\* returns has translation_id = t and user_id = u and is the one stored.
C13_CreateFavoriteIndependentPairs ==
  [][\A input \in FavoriteInputs :
       ( /\ createFavorite(input)
         /\ input.translation_id \in StoredTranslationIds
         /\ MarkersOf(input.translation_id, input.user_id) = {} )
       => /\ last'.output.error = ""
          /\ Len(last'.output.favorite) = 1
          /\ last'.output.favorite[1].translation_id = input.translation_id
          /\ last'.output.favorite[1].user_id = input.user_id
          /\ MarkersOf(input.translation_id, input.user_id)'
               = {last'.output.favorite[1]}
    ]_vars

\* a user favorited a translation that belongs to somebody else and that
\* another user had favorited before
C13_Witness ==
  /\ last.op = "createFavorite"
  /\ last.output.error = ""
  /\ \E f \in Range(favoriteTranslationsTable) :
        /\ f.translation_id = last.input.translation_id
        /\ f.user_id # last.input.user_id
  /\ \E t \in Range(translationsTable) :
        /\ t.id = last.input.translation_id
        /\ t.user_id \notin {Null, last.input.user_id}

\* C14: in every reachable state, interleaved requests included, the
\* translation_id of every stored marker is the id of a stored translation.
C14_MarkersReferenceStoredTranslations ==
  \A f \in Range(favoriteTranslationsTable) :
     f.translation_id \in StoredTranslationIds

\* two interleaved requests both stored a marker of one pair while the
\* translation store is full
C14_Witness ==
  /\ \E i, j \in DOMAIN favoriteTranslationsTable :
        /\ i # j
        /\ favoriteTranslationsTable[i].translation_id
             = favoriteTranslationsTable[j].translation_id
        /\ favoriteTranslationsTable[i].user_id
             = favoriteTranslationsTable[j].user_id
  /\ Len(translationsTable) = MaxTranslations

\* C15: deleteFavorite(t, u) returns success = true iff at least one marker of
\* exactly (t, u) was stored when it ran; it answers success = false, and
\* raises nothing, when t is not stored, when no marker of (t, u) is stored
\* and when the only markers on t belong to other users.
C15_DeleteFavoriteSuccessIffMarker ==
  [][\A input \in FavoriteInputs :
       deleteFavorite(input) =>
         /\ last'.op = "deleteFavorite"
         /\ last'.output.success
              = (MarkersOf(input.translation_id, input.user_id) # {})
         /\ input.translation_id \notin StoredTranslationIds
              => last'.output.success = FALSE
         /\ ( /\ MarkersOf(input.translation_id, input.user_id) = {}
              /\ \E f \in Range(favoriteTranslationsTable) :
                    f.translation_id = input.translation_id )
              => last'.output.success = FALSE
    ]_vars

\* the call was answered false while another user's marker on the same
\* translation is stored
C15_Witness ==
  /\ last.op = "deleteFavorite"
  /\ last.output.success = FALSE
  /\ \E f \in Range(favoriteTranslationsTable) :
        /\ f.translation_id = last.input.translation_id
        /\ f.user_id # last.input.user_id

OtherMarkers(table, input) ==
  SelectSeq(table, LAMBDA f : \/ f.translation_id # input.translation_id
                              \/ f.user_id # input.user_id)

\* C16: deleteFavorite(t, u) leaves every marker whose translation_id differs
\* from t or whose user_id differs from u as it was, and leaves the
\* translation store as it was, whether it answers true or false.
C16_DeleteFavoriteFrame ==
  [][\A input \in FavoriteInputs :
       deleteFavorite(input) =>
         /\ translationsTable' = translationsTable
         /\ OtherMarkers(favoriteTranslationsTable', input)
              = OtherMarkers(favoriteTranslationsTable, input)
    ]_vars

\* a marker was deleted while a marker of another user on the same translation
\* stays stored
C16_Witness ==
  /\ last.op = "deleteFavorite"
  /\ last.output.success = TRUE
  /\ \E f \in Range(favoriteTranslationsTable) :
        /\ f.translation_id = last.input.translation_id
        /\ f.user_id # last.input.user_id

IsFavoritesCall == last.op = "getFavorites"

\* the markers input.user_id holds
MarkersOfUser(user_id) ==
  {f \in Range(favoriteTranslationsTable) : f.user_id = user_id}

\* the record getFavorites builds for a stored translation
AsFavorite(t) ==
  [id |-> t.id, source_text |-> t.source_text,
   translated_text |-> t.translated_text,
   source_language |-> t.source_language,
   target_language |-> t.target_language,
   user_id |-> t.user_id, created_at |-> t.created_at, is_favorite |-> TRUE]

\* C17: getFavorites(u) returns a translation only if a marker with
\* user_id = u is stored for it; a marker of another user never makes a
\* translation appear in u's list.
C17_FavoritesOnlyOfRequester ==
  IsFavoritesCall =>
    \A i \in DOMAIN last.output :
       \E f \in MarkersOfUser(last.input.user_id) :
          f.translation_id = last.output[i].id

\* the list of a user was returned from its start while another user holds a
\* marker on a translation the list does not show
C17_Witness ==
  /\ IsFavoritesCall
  /\ last.input.offset = 0
  /\ Len(last.output) >= 1
  /\ \E f \in Range(favoriteTranslationsTable) :
        /\ f.user_id # last.input.user_id
        /\ \A i \in DOMAIN last.output : last.output[i].id # f.translation_id

NewerThan(f, markers) == {x \in markers : x.created_at > f.created_at}
NotOlderThan(f, markers) == {x \in markers : x.created_at >= f.created_at}

\* C18: getFavorites(u, limit, offset) returns the records of u's markers
\* ordered by the marker's created_at, newest first, every record has
\* is_favorite = true, and the list is the window [offset, offset + limit) of
\* that ordering: position i shows the translation of a marker whose rank by
\* marker time is offset + i, each marker shown at most once.
C18_FavoritesOrderedByMarkerAndWindowed ==
  IsFavoritesCall =>
    LET markers == MarkersOfUser(last.input.user_id)
        out == last.output
        offset == last.input.offset
    IN /\ \A i \in DOMAIN out : out[i].is_favorite = TRUE
       /\ Len(out) = Min(last.input.limit,
                         Max(0, Cardinality(markers) - offset))
       /\ \E shown \in [DOMAIN out -> markers] :
            /\ \A i, j \in DOMAIN out : shown[i] = shown[j] => i = j
            /\ \A i \in DOMAIN out :
                 /\ \E t \in Range(translationsTable) :
                       /\ t.id = shown[i].translation_id
                       /\ out[i] = AsFavorite(t)
                 /\ Cardinality(NewerThan(shown[i], markers)) <= offset + i - 1
                 /\ offset + i - 1 < Cardinality(NotOlderThan(shown[i], markers))
            /\ \A i, j \in DOMAIN out :
                 i < j => shown[i].created_at >= shown[j].created_at

\* two favorites were returned, the translation stored first in front because
\* its marker is the newer one, the translation stored second not being the
\* newer translation
C18_Witness ==
  /\ IsFavoritesCall
  /\ Len(last.output) = 2
  /\ last.output[1].id < last.output[2].id
  /\ last.output[1].created_at <= last.output[2].created_at
  /\ \E f1, f2 \in MarkersOfUser(last.input.user_id) :
        /\ f1.translation_id = last.output[1].id
        /\ f2.translation_id = last.output[2].id
        /\ f1.created_at > f2.created_at

Contains(text, part) ==
  \E i \in 0..(Len(text) - Len(part)) :
     \A k \in 1..Len(part) : text[i + k] = part[k]

DictionaryOf(source_language) ==
  IF source_language = "en" THEN translationsEnZh ELSE translationsZhEn

\* the key the claim compares with: case folded for English, exact for Chinese
DictionaryKeyOf(source_text, source_language) ==
  IF source_language = "en" THEN toLowerCase(source_text) ELSE source_text

\* C20 as stated: for every valid input createTranslation stores a row whose
\* translated_text is the dictionary value when source_text matches a
\* dictionary key of the pair (case-insensitively for en, exactly for zh), and
\* otherwise a fallback text that contains source_text unchanged.
C20_TranslatedTextDictionaryOrFallback ==
  /\ \A t \in Range(translationsTable) :
       LET dict == DictionaryOf(t.source_language)
           key == DictionaryKeyOf(t.source_text, t.source_language)
       IN IF \E e \in dict : e[1] = key
          THEN \E e \in dict : e[1] = key /\ t.translated_text = e[2]
          ELSE Contains(t.translated_text, t.source_text)
  /\ last.op = "createTranslation" =>
       /\ "error" \notin DOMAIN last.output
       /\ last.output \in Range(translationsTable)

\* the row a successful createTranslation step appended
NewTranslation == translationsTable[Len(translationsTable)]

\* C21: createTranslation stores user_id null when the input's user_id is
\* undefined or null and stores the input string as it is when it is a
\* string, the empty string included; the returned record carries the
\* user_id of the stored one.
C21_CreateTranslationUserId ==
  [][\A input \in ApiCreateTranslationInputs :
       ( /\ createTranslation(input)
         /\ Len(translationsTable') = Len(translationsTable) + 1 )
       => /\ input.user_id \in {Null, Undefined}
               => NewTranslation'.user_id = Null
          /\ input.user_id \notin {Null, Undefined}
               => NewTranslation'.user_id = input.user_id
          /\ last'.output.user_id = NewTranslation'.user_id
    ]_vars

\* translations of an undefined, of a null and of an empty-string user_id
\* were created: two rows are stored, the last with user_id ""
C21_Witness ==
  /\ last.op = "createTranslation"
  /\ last.input.user_id = ""
  /\ Len(translationsTable) = 2
  /\ NewTranslation.user_id = ""
  /\ last.output.user_id = ""
  /\ translationsTable[1].user_id = Null

\* C22: a successful createTranslation adds exactly one translation record,
\* whose id differs from every id stored before and whose source_text is the
\* input's, not trimmed and in its case; the translations stored before and
\* all favorite markers stay as they were.
C22_CreateTranslationAddsOne ==
  [][\A input \in ApiCreateTranslationInputs :
       ( /\ createTranslation(input)
         /\ "error" \notin DOMAIN last'.output )
       => /\ Len(translationsTable') = Len(translationsTable) + 1
          /\ SubSeq(translationsTable', 1, Len(translationsTable))
               = translationsTable
          /\ NewTranslation'.id \notin StoredTranslationIds
          /\ NewTranslation'.source_text = input.source_text
          /\ last'.output = NewTranslation'
          /\ favoriteTranslationsTable' = favoriteTranslationsTable
    ]_vars

\* a second translation, of a text with outer blanks and a capital, was
\* stored while a favorite marker is stored
C22_Witness ==
  /\ last.op = "createTranslation"
  /\ "error" \notin DOMAIN last.output
  /\ last.input.source_text = SpacedHi
  /\ Len(translationsTable) = 2
  /\ NewTranslation.source_text = SpacedHi
  /\ NewTranslation.id # translationsTable[1].id
  /\ favoriteTranslationsTable # <<>>

IsValidTranslation(t) ==
  /\ Len(t.source_text) >= 1
  /\ t.source_language # t.target_language

\* C23: every translation stored through the createTranslation procedure has
\* a non-empty source_text and a source_language different from its
\* target_language: a request with empty text or equal languages is rejected
\* by the input validation, never reaches the handler and writes nothing.
C23_CreateTranslationValidated ==
  [][/\ \A t \in Range(translationsTable') : IsValidTranslation(t)
     /\ \A input \in ApiCreateTranslationInputs :
          ~IsValidTranslation(input)
          => /\ ~createTranslation(input)
             /\ rejectCreateTranslation(input)
                  => /\ "error" \in DOMAIN last'.output
                     /\ translationsTable' = translationsTable
                     /\ favoriteTranslationsTable' = favoriteTranslationsTable
    ]_vars

\* a request with a text and twice the same language was rejected while a
\* translation is stored
C23_Witness ==
  /\ last.op = "createTranslation"
  /\ "error" \in DOMAIN last.output
  /\ Len(last.input.source_text) >= 1
  /\ last.input.source_language = last.input.target_language
  /\ translationsTable # <<>>

\* C24: two createFavorite requests for one (translation_id, user_id) whose
\* existence check, duplicate check and insert interleave can both pass the
\* duplicate check and both insert: a request that has passed the duplicate
\* check can always insert, and its insert adds a marker of the pair and
\* answers with it, also when the other request has stored one meanwhile.
C24_InsertAfterCheckAlwaysStores ==
  [][\A p \in Procs :
       /\ inflight[p].pc = "insert" => ENABLED createFavoriteInsert(p)
       /\ \A input \in FavoriteInputs :
            ( /\ createFavoriteInsert(p)
              /\ InputOf(p) = input )
            => /\ Cardinality(MarkersOf(input.translation_id,
                                         input.user_id)')
                    = Cardinality(MarkersOf(input.translation_id,
                                            input.user_id)) + 1
               /\ last'.input = input
               /\ last'.output.error = ""
    ]_vars

\* both requests have answered with a marker: the pair of the last answer
\* has two stored markers and no request is in flight
C24_Witness ==
  /\ last.op = "createFavorite"
  /\ last.output.error = ""
  /\ Cardinality(MarkersOf(last.input.translation_id, last.input.user_id)) = 2
  /\ InFlight = {}

\* C25: a createFavorite call that fails with "translation not found" or
\* "already favorited" leaves the translation store and the favorite store as
\* they were: neither of its two checks writes, and the step that answers
\* with the error writes nothing.
C25_FailedCreateFavoriteWritesNothing ==
  [][/\ \A p \in Procs, input \in FavoriteInputs :
          ( \/ createFavoriteCheckTranslation(p, input)
            \/ createFavoriteCheckExisting(p) )
          => /\ translationsTable' = translationsTable
             /\ favoriteTranslationsTable' = favoriteTranslationsTable
     /\ ( /\ last' # last
          /\ last'.op = "createFavorite"
          /\ last'.output.error \in {TranslationNotFound, AlreadyFavorited} )
       => /\ translationsTable' = translationsTable
          /\ favoriteTranslationsTable' = favoriteTranslationsTable
    ]_vars

\* a call was refused as a duplicate, later than the marker it ran into was
\* stored, with two translations and that one marker in the stores
C25_Witness ==
  /\ last.op = "createFavorite"
  /\ last.output.error = AlreadyFavorited
  /\ Len(translationsTable) = 2
  /\ Len(favoriteTranslationsTable) = 1
  /\ favoriteTranslationsTable[1].created_at < now

ReadOps == {"getTranslationById", "getTranslationHistory", "getFavorites"}

\* C26: getTranslationById, getTranslationHistory and getFavorites leave the
\* translation store and the favorite store as they were, for every input
\* and whatever they return (a record, null, a list, the empty list): every
\* step that answers one of them changes neither table.
C26_ReadsWriteNothing ==
  [][( /\ last'.op \in ReadOps
       /\ last' # last \/ pages' # pages )
     => /\ translationsTable' = translationsTable
        /\ favoriteTranslationsTable' = favoriteTranslationsTable
        /\ nextFavoriteId' = nextFavoriteId
    ]_vars

\* getFavorites answered with a non-empty list while both stores hold rows of
\* other users too
C26_Witness ==
  /\ last.op = "getFavorites"
  /\ last.output # <<>>
  /\ Len(favoriteTranslationsTable) = 2
  /\ \E f \in Range(favoriteTranslationsTable) :
        f.user_id # last.input.user_id

\* how often the translation id is listed by the records that satisfy keep
TimesListed(list, id, keep(_)) ==
  Cardinality({i \in DOMAIN list : list[i].id = id /\ keep(list[i])})

\* C27: for a concrete user u and any reachable store, a translation is
\* reported with is_favorite = true by getTranslationHistory(user_id = u) iff
\* it is listed by getFavorites(u), both called from offset 0 with a limit
\* that covers the store, and it is listed as often by the one as by the
\* other: checked on every getFavorites(u) that directly follows such a
\* getTranslationHistory(u).
C27_HistoryFavoritesAgreeWithGetFavorites ==
  [][( /\ last.op = "getTranslationHistory"
       /\ last'.op = "getFavorites"
       /\ last.input.user_id \in UserIds
       /\ last'.input.user_id = last.input.user_id
       /\ last.input.offset = 0
       /\ last'.input.offset = 0
       /\ last.input.limit >= Cardinality(JoinedRows(last.input))
       /\ last'.input.limit
            >= Cardinality(MarkersOfUser(last.input.user_id)) )
     => \A id \in StoredTranslationIds :
          TimesListed(last.output, id, LAMBDA r : r.is_favorite)
            = TimesListed(last'.output, id, LAMBDA r : TRUE)
    ]_vars

\* the call answered last is deleteFavorite(input)
JustDeleted(input) == last.op = "deleteFavorite" /\ last.input = input

\* C28 as stated: after deleteFavorite(t, u) no marker of (t, u) is stored,
\* even when several were; a deleteFavorite(t, u) that follows immediately
\* answers success = false and a createFavorite(t, u) that follows
\* immediately succeeds.
C28_AfterDeleteCreateSucceeds ==
  [][\A input \in FavoriteInputs :
       /\ deleteFavorite(input)
            => MarkersOf(input.translation_id, input.user_id)' = {}
       /\ (JustDeleted(input) /\ deleteFavorite(input))
            => last'.output.success = FALSE
       /\ (JustDeleted(input) /\ createFavorite(input))
            => last'.output.error = ""
    ]_vars

\* C28: after deleteFavorite(t, u) no marker of (t, u) is stored, even when
\* several were; a deleteFavorite(t, u) that follows immediately answers
\* success = false; a createFavorite(t, u) that follows immediately succeeds
\* if translation t is stored and fails with "translation not found" if not.
C28_AfterDeleteCreateSucceedsIfStored ==
  [][\A input \in FavoriteInputs :
       /\ deleteFavorite(input)
            => MarkersOf(input.translation_id, input.user_id)' = {}
       /\ (JustDeleted(input) /\ deleteFavorite(input))
            => last'.output.success = FALSE
       /\ (JustDeleted(input) /\ createFavorite(input))
            => IF input.translation_id \in StoredTranslationIds
               THEN /\ last'.output.error = ""
                    /\ Cardinality(MarkersOf(input.translation_id,
                                              input.user_id)') = 1
               ELSE last'.output.error = TranslationNotFound
    ]_vars

\* one deleteFavorite removed the two markers two interleaved requests had
\* stored for its pair
C28_Witness ==
  /\ last.op = "deleteFavorite"
  /\ last.rowCount = 2
  /\ MarkersOf(last.input.translation_id, last.input.user_id) = {}

\* the (translation_id, user_id) pairs that have a stored marker
MarkerPairs ==
  {<<f.translation_id, f.user_id>> : f \in Range(favoriteTranslationsTable)}

\* C29: from a state with translation t stored and no marker of (t, u),
\* createFavorite(t, u) followed by deleteFavorite(t, u) answers success =
\* true and leaves the set of stored marker pairs as it was before the two
\* calls: the first call adds the pair and nothing else, the second, run
\* directly after the successful first, removes the pair and nothing else.
C29_CreateThenDeleteRestoresPairs ==
  [][\A input \in FavoriteInputs :
       LET pair == <<input.translation_id, input.user_id>>
       IN /\ ( /\ createFavorite(input)
               /\ input.translation_id \in StoredTranslationIds
               /\ pair \notin MarkerPairs )
             => /\ last'.output.error = ""
                /\ MarkerPairs' = MarkerPairs \cup {pair}
          /\ ( /\ last.op = "createFavorite"
               /\ last.input = input
               /\ last.output.error = ""
               /\ deleteFavorite(input) )
             => /\ last'.output.success = TRUE
                /\ MarkerPairs' = MarkerPairs \ {pair}
    ]_vars

\* the marker stored second was deleted again and the marker stored first is
\* still there
C29_Witness ==
  /\ last.op = "deleteFavorite"
  /\ last.output.success = TRUE
  /\ nextFavoriteId = 3
  /\ Len(favoriteTranslationsTable) = 1
  /\ favoriteTranslationsTable[1].id = 1

\* no timeout is pending and no translation is under way
FormQuiet == form.timeoutId = <<>> /\ form.translating = <<>>

\* C30 as stated: with real-time translation on, a debounced translation
\* started for an earlier source text never writes its result into
\* translatedText after the source text has changed or been cleared, and
\* whenever the source text is empty and nothing is pending any more,
\* translatedText is empty.
C30_NoStaleRealTimeWrite ==
  [][/\ ( /\ mockTranslateResolves
          /\ form.isRealTime )
        => Head(form.translating).sourceText = form.sourceText
     /\ ( /\ form'.isRealTime
          /\ form'.sourceText = <<>>
          /\ FormQuiet' )
        => form'.translatedText = <<>>
    ]_vars

====
